---------------------------- MODULE Spec2Model ----------------------------
(***************************************************************************)
(* The floating toolbar of the glyph editor (src/widgets/toolbar.rs) and   *)
(* the embedded-glyph Component (src/component.rs).                        *)
(*                                                                         *)
(* Indices are the source's: items are numbered from 0, so the item at     *)
(* index i is its[i + 1] in the TLA+ sequence.                             *)
(***************************************************************************)
EXTENDS Integers, Sequences, FiniteSets, TLC

\* ------------------------------------------------------------------ bounds
\* Longest registry drawn for Toolbar::new besides the default one.
MaxItems == 3

\* Most Components held at once.
MaxComponents == 2

\* ------------------------------------------------------------- vocabulary
\* Option::None of an index (Iterator::position) and of a ToolId.
NoIndex == -1
NoTool == "None"

SET_TOOL == "SET_TOOL"
TOGGLE_PREVIEW_TOOL == "TOGGLE_PREVIEW_TOOL"

Mods == {"None", "Shift"}
Keys == {"v", "p", "u", "x"}
KeyEvents == [mods : Mods, key : Keys]

\* struct ToolbarItem: the icon is drawing data and is left out.
HotKeyOf(m, k) == [mods |-> m, key |-> k]
ToolbarItem(n, h) == [name |-> n, hotkey |-> h]

\* The default registry in the order the items are declared in, not the
\* order of the vec! handed to Toolbar::new.
DefaultItems_declared ==
    << ToolbarItem("Select", HotKeyOf("None", "v")),
       ToolbarItem("Pen", HotKeyOf("None", "p")),
       ToolbarItem("Preview", HotKeyOf("None", "h")),
       ToolbarItem("Rectangle", HotKeyOf("None", "u")),
       ToolbarItem("Ellipse", HotKeyOf("Shift", "u")),
       ToolbarItem("Knife", HotKeyOf("None", "e")),
       ToolbarItem("Measure", HotKeyOf("None", "m")) >>

\* impl Default for Toolbar: the registry handed to Toolbar::new.
DefaultItems ==
    << ToolbarItem("Select", HotKeyOf("None", "v")),
       ToolbarItem("Pen", HotKeyOf("None", "p")),
       ToolbarItem("Knife", HotKeyOf("None", "e")),
       ToolbarItem("Preview", HotKeyOf("None", "h")),
       ToolbarItem("Measure", HotKeyOf("None", "m")),
       ToolbarItem("Rectangle", HotKeyOf("None", "u")),
       ToolbarItem("Ellipse", HotKeyOf("Shift", "u")) >>

\* Tool ids a SET_TOOL command may carry: the default tools and one id that
\* no registry holds.
ToolIds == {DefaultItems[i].name : i \in 1..Len(DefaultItems)} \cup {"Bogus"}

\* Descriptors of the other registries: names and chords may repeat.
SmallItems ==
    {ToolbarItem(n, h) : n \in {"Select", "Pen"},
                         h \in {HotKeyOf("None", "v"), HotKeyOf("Shift", "v")}}

Registries ==
    {DefaultItems} \cup UNION {[1..n -> SmallItems] : n \in 1..MaxItems}

\* ------------------------------------------------------------------ events
ClickEvent(i) == [kind |-> "Click", slot |-> i]
KeyDownEvent(k) == [kind |-> "KeyDown", key |-> k]
SetToolCommand(t, o) ==
    [kind |-> "Command", selector |-> SET_TOOL, tool |-> t, origin |-> o]
TogglePreviewCommand(b) ==
    [kind |-> "Command", selector |-> TOGGLE_PREVIEW_TOOL, flag |-> b,
     origin |-> "external"]

IsSetTool(ev) == ev.kind = "Command" /\ ev.selector = SET_TOOL
IsTogglePreview(ev) == ev.kind = "Command" /\ ev.selector = TOGGLE_PREVIEW_TOOL

VARIABLES
    items,       \* Toolbar.items
    selected,    \* Toolbar.selected
    hide_panel,  \* FloatingPanel.hide_panel
    queue,       \* commands given to ctx.submit_command, not yet dispatched;
                 \* origin names the submitter of each
    event,       \* the event the last handler call was given
    prev,        \* Toolbar.selected when that call began
    prev_hide,   \* FloatingPanel.hide_panel when that call began
    emitted,     \* the commands that call gave to ctx.submit_command
    components,  \* the Components made so far
    next_id,     \* the counter EntityId::new_with_parent draws from
    compared,    \* the last call, when it was Data::same:
                 \* <<left, right, result>>
    sources,     \* for each Component, the record it was made from and how
    exported     \* the last call, when it was to_norad: <<index, record>>

toolbarVars ==
    <<items, selected, hide_panel, queue, event, prev, prev_hide, emitted>>
componentVars == <<components, next_id, compared, sources, exported>>
vars == <<toolbarVars, componentVars>>

\* ------------------------------------------------------------ Toolbar code
\* HotKey::matches: the chord's modifiers and key are those of the event.
Matches(hotkey, key) == hotkey.mods = key.mods /\ hotkey.key = key.key

\* self.items.iter().position(|item| item.name == *tool_id), from index i.
RECURSIVE PositionFrom(_, _, _)
PositionFrom(its, tool, i) ==
    IF i >= Len(its) THEN NoIndex
    ELSE IF its[i + 1].name = tool THEN i
    ELSE PositionFrom(its, tool, i + 1)

\* Position as rposition would give it: the last item of that name.
RECURSIVE PositionBack(_, _, _)
PositionBack(its, tool, i) ==
    IF i < 0 THEN NoIndex
    ELSE IF its[i + 1].name = tool THEN i
    ELSE PositionBack(its, tool, i - 1)

Position_last(its, tool) == PositionBack(its, tool, Len(its) - 1)

Position(its, tool) == PositionFrom(its, tool, 0)

\* self.items.iter().find(|tool| tool.hotkey.matches(key)).map(|tool| tool.name)
RECURSIVE FindFrom(_, _, _)
FindFrom(its, key, i) ==
    IF i >= Len(its) THEN NoTool
    ELSE IF Matches(its[i + 1].hotkey, key) THEN its[i + 1].name
    ELSE FindFrom(its, key, i + 1)

\* tool_for_keypress scanning from the back: the last matching item.
RECURSIVE FindBack(_, _, _)
FindBack(its, key, i) ==
    IF i < 0 THEN NoTool
    ELSE IF Matches(its[i + 1].hotkey, key) THEN its[i + 1].name
    ELSE FindBack(its, key, i - 1)

tool_for_keypress_last(its, key) == FindBack(its, key, Len(its) - 1)

\* tool_for_keypress that passes over the first item.
tool_for_keypress_skip(its, key) == FindFrom(its, key, 1)

tool_for_keypress(its, key) == FindFrom(its, key, 0)

\* The command branch storing the position without unwrap_or.
SelectedAfterCommand_unwrap(its, sel, ev) ==
    IF IsSetTool(ev) THEN Position(its, ev.tool) ELSE sel

\* The command branch left out.
SelectedAfterCommand_ignore(its, sel, ev) == sel

\* The command branch with unwrap_or(0).
SelectedAfterCommand_zero(its, sel, ev) ==
    IF IsSetTool(ev)
    THEN LET p == Position(its, ev.tool)
         IN IF p # NoIndex THEN p ELSE 0
    ELSE sel

\* The handler storing the clicked slot itself.
SelectedAfterCommand_click(its, sel, ev) ==
    IF IsSetTool(ev)
    THEN LET p == Position(its, ev.tool)
         IN IF p # NoIndex THEN p ELSE sel
    ELSE IF ev.kind = "Click" THEN ev.slot
    ELSE sel

\* Toolbar::event, the command branch: self.selected after it.
SelectedAfterCommand(its, sel, ev) ==
    IF IsSetTool(ev)
    THEN LET p == Position(its, ev.tool)
         IN IF p # NoIndex THEN p ELSE sel
    ELSE sel

\* child.event(ctx, event, &mut is_selected, env): the slot's on_click
\* closure sets the flag when the event is a click on that slot.
ChildEvent(i, ev, is_selected) ==
    IF ev.kind = "Click" /\ ev.slot = i THEN TRUE ELSE is_selected

\* The loop without the i != self.selected test.
RECURSIVE SubmittedFrom_noguard(_, _, _, _)
SubmittedFrom_noguard(its, sel, ev, i) ==
    IF i >= Len(its) THEN << >>
    ELSE LET is_selected == ChildEvent(i, ev, i = sel)
         IN (IF is_selected
             THEN << SetToolCommand(its[i + 1].name, "toolbar") >>
             ELSE << >>)
            \o SubmittedFrom_noguard(its, sel, ev, i + 1)

\* The loop naming self.items[self.selected] in the command.
RECURSIVE SubmittedFrom_stale(_, _, _, _)
SubmittedFrom_stale(its, sel, ev, i) ==
    IF i >= Len(its) THEN << >>
    ELSE LET is_selected == ChildEvent(i, ev, i = sel)
         IN (IF is_selected /\ i # sel
             THEN << SetToolCommand(its[sel + 1].name, "toolbar") >>
             ELSE << >>)
            \o SubmittedFrom_stale(its, sel, ev, i + 1)

\* The loop submitting for whichever slot was clicked.
RECURSIVE SubmittedFrom_clicked(_, _, _, _)
SubmittedFrom_clicked(its, sel, ev, i) ==
    IF i >= Len(its) THEN << >>
    ELSE (IF ev.kind = "Click" /\ ev.slot = i
          THEN << SetToolCommand(its[i + 1].name, "toolbar") >>
          ELSE << >>)
         \o SubmittedFrom_clicked(its, sel, ev, i + 1)

\* Toolbar::event, the loop over the slots from index i: the commands it
\* submits, in order.
RECURSIVE SubmittedFrom(_, _, _, _)
SubmittedFrom(its, sel, ev, i) ==
    IF i >= Len(its) THEN << >>
    ELSE LET is_selected == ChildEvent(i, ev, i = sel)
         IN (IF is_selected /\ i # sel
             THEN << SetToolCommand(its[i + 1].name, "toolbar") >>
             ELSE << >>)
            \o SubmittedFrom(its, sel, ev, i + 1)

\* The panel's branch flipping the flag instead of storing the payload.
HideAfterCommand_toggle(hide, ev) ==
    IF IsTogglePreview(ev) THEN ~hide ELSE hide

\* The panel's branch showing the panel again on any other command.
HideAfterCommand_any(hide, ev) ==
    IF IsTogglePreview(ev) THEN ev.flag
    ELSE IF ev.kind = "Command" THEN FALSE
    ELSE hide

\* FloatingPanel::event, its own branch: self.hide_panel after it.
HideAfterCommand(hide, ev) ==
    IF IsTogglePreview(ev) THEN ev.flag ELSE hide

\* FloatingPanel::event keeping events from the inner widget while hidden.
PanelEvent_gated(ev, drop) ==
    LET sel == IF hide_panel THEN selected
               ELSE SelectedAfterCommand(items, selected, ev)
        out == IF hide_panel THEN << >>
               ELSE SubmittedFrom(items, sel, ev, 0)
    IN /\ selected' = sel
       /\ hide_panel' = HideAfterCommand(hide_panel, ev)
       /\ emitted' = out
       /\ queue' = SubSeq(queue, drop + 1, Len(queue)) \o out
       /\ event' = ev
       /\ prev' = selected
       /\ prev_hide' = hide_panel
       /\ UNCHANGED <<items, componentVars>>

\* FloatingPanel::event: the inner Toolbar::event, then the panel's branch.
\* drop is the number of queued commands this dispatch takes off the queue.
PanelEvent(ev, drop) ==
    LET sel == SelectedAfterCommand(items, selected, ev)
        out == SubmittedFrom(items, sel, ev, 0)
    IN /\ selected' = sel
       /\ hide_panel' = HideAfterCommand(hide_panel, ev)
       /\ emitted' = out
       /\ queue' = SubSeq(queue, drop + 1, Len(queue)) \o out
       /\ event' = ev
       /\ prev' = selected
       /\ prev_hide' = hide_panel
       /\ UNCHANGED <<items, componentVars>>

\* ----------------------------------------------------------------- actions
\* Toolbar::new, over every registry, wrapped by FloatingPanel::new.
Init ==
    /\ items \in Registries
    /\ selected = 0
    /\ hide_panel = FALSE
    /\ queue = << >>
    /\ event = [kind |-> "Init"]
    /\ prev = 0
    /\ prev_hide = FALSE
    /\ emitted = << >>
    /\ components = << >>
    /\ next_id = 0
    /\ compared = << >>
    /\ sources = << >>
    /\ exported = << >>

\* A pointer click on slot i.  Input events are taken up once the commands
\* of the event before have been dispatched.
Click(i) ==
    /\ queue = << >>
    /\ i \in 0..(Len(items) - 1)
    /\ PanelEvent(ClickEvent(i), 0)

\* A SET_TOOL command submitted by another component.
SetActiveTool(t) ==
    /\ t \in ToolIds
    /\ PanelEvent(SetToolCommand(t, "external"), 0)

\* A TOGGLE_PREVIEW_TOOL command.
SetPreviewVisibility(b) ==
    /\ b \in BOOLEAN
    /\ PanelEvent(TogglePreviewCommand(b), 0)

\* The dispatch of the oldest command on the queue.
Deliver ==
    /\ queue # << >>
    /\ PanelEvent(Head(queue), 1)

\* A key event, handled by the owner of the toolbar: the tool that
\* tool_for_keypress gives, when there is one, is sent as a SET_TOOL command.
\* Toolbar.selected is private to the toolbar and is assigned in
\* Toolbar::event alone, so it changes when that command is dispatched.
KeyDown(key) ==
    /\ queue = << >>
    /\ key \in KeyEvents
    /\ LET tool == tool_for_keypress(items, key)
           out == IF tool # NoTool
                  THEN << SetToolCommand(tool, "hotkey") >>
                  ELSE << >>
       IN /\ emitted' = out
          /\ queue' = queue \o out
    /\ event' = KeyDownEvent(key)
    /\ prev' = selected
    /\ prev_hide' = hide_panel
    /\ UNCHANGED <<items, selected, hide_panel, componentVars>>

Next ==
    \/ \E i \in 0..(Len(items) - 1) : Click(i)
    \/ \E key \in KeyEvents : KeyDown(key)
    \/ \E t \in ToolIds : SetActiveTool(t)
    \/ \E b \in BOOLEAN : SetPreviewVisibility(b)
    \/ Deliver

Spec == Init /\ [][Next]_vars

\* The toolbar the program builds: Toolbar::default().
InitDefault ==
    /\ Init
    /\ items = DefaultItems

SpecDefault == InitDefault /\ [][Next]_vars

\* ---------------------------------------------------------- Component code
\* f64 values: IEEE's two zeros and NaN besides ordinary numbers.
F64 == {"0.0", "-0.0", "1.0", "NaN"}

\* f64's ==: NaN equals nothing, the two zeros equal each other.
F64Eq(a, b) ==
    /\ a # "NaN"
    /\ b # "NaN"
    /\ (a = b \/ {a, b} = {"0.0", "-0.0"})

\* The coefficient arrays drawn for norad records.
Transforms ==
    { << "1.0", "0.0", "0.0", "1.0", "0.0", "0.0" >>,
      << "1.0", "-0.0", "0.0", "1.0", "0.0", "0.0" >>,
      << "1.0", "0.0", "0.0", "1.0", "1.0", "0.0" >>,
      << "1.0", "0.0", "0.0", "1.0", "NaN", "0.0" >> }

\* GlyphName is a shared string (Arc<str>): arc tells the allocations apart,
\* and two of them hold the same text.
GlyphNames ==
    { [text |-> "a", arc |-> 1], [text |-> "a", arc |-> 2],
      [text |-> "b", arc |-> 3] }

\* norad's AffineTransform: six named coefficients.
AffineTransform(a, b, c, d, e, f) ==
    [x_scale |-> a, xy_scale |-> b, yx_scale |-> c, y_scale |-> d,
     x_offset |-> e, y_offset |-> f]

NoradTransforms ==
    {AffineTransform(t[1], t[2], t[3], t[4], t[5], t[6]) : t \in Transforms}

\* Option<Identifier>::None of a norad record.
NoIdentifier == "None"

\* norad::glyph::Component
NoradComponents ==
    [base : GlyphNames, transform : NoradTransforms,
     identifier : {NoIdentifier, "id1"}]

\* EntityId::new_with_parent(parent): the next value of the counter.
EntityId(parent, n) == [parent |-> parent, point |-> n]

\* Data::same of EntityId and of GlyphName (pointer equality of the Arc).
EntityIdSame(a, b) == a = b
GlyphNameSame(a, b) == a.arc = b.arc

\* [f64; 6] == [f64; 6], from coefficient k on.
RECURSIVE CoeffsEqFrom(_, _, _)
CoeffsEqFrom(l, r, k) ==
    IF k > Len(l) THEN TRUE
    ELSE F64Eq(l[k], r[k]) /\ CoeffsEqFrom(l, r, k + 1)

affine_eq(left, right) == CoeffsEqFrom(left, right, 1)

\* #[derive(Data)] with #[data(ignore)] on id.
ComponentSame_ignore_id(a, b) ==
    /\ GlyphNameSame(a.base, b.base)
    /\ affine_eq(a.transform, b.transform)

\* #[derive(Data)] for Component: every field takes part, transform through
\* its same_fn.
ComponentSame(a, b) ==
    /\ GlyphNameSame(a.base, b.base)
    /\ affine_eq(a.transform, b.transform)
    /\ EntityIdSame(a.id, b.id)

\* src.transform.into(): the Affine whose coefficient array is the record's
\* six coefficients in the order a, b, c, d, e, f, each value kept.
AffineFromNorad(t) ==
    << t.x_scale, t.xy_scale, t.yx_scale, t.y_scale, t.x_offset, t.y_offset >>

\* into() with the two off-diagonal coefficients exchanged.
AffineToNorad_swapped(a) ==
    AffineTransform(a[1], a[3], a[2], a[4], a[5], a[6])

\* self.transform.into(): the record of the Affine's coefficient array.
AffineToNorad(a) ==
    AffineTransform(a[1], a[2], a[3], a[4], a[5], a[6])

\* from_norad giving every Component the id of its parent scope.
from_norad_parent_id(src, n) ==
    [base |-> src.base,
     transform |-> AffineFromNorad(src.transform),
     id |-> EntityId(0, 0)]

\* Component::from_norad, given the counter's value.
from_norad(src, n) ==
    [base |-> src.base,
     transform |-> AffineFromNorad(src.transform),
     id |-> EntityId(0, n)]

\* Component::to_norad
to_norad(self) ==
    [base |-> self.base,
     transform |-> AffineToNorad(self.transform),
     identifier |-> NoIdentifier]

\* The toolbar stands still while Components are made and compared.
InitComponent ==
    /\ Init
    /\ items = DefaultItems

FromNorad(src) ==
    /\ Len(components) < MaxComponents
    /\ components' = Append(components, from_norad(src, next_id))
    /\ next_id' = next_id + 1
    /\ sources' = Append(sources, [src |-> src, by |-> "from_norad"])
    /\ compared' = << >>
    /\ exported' = << >>
    /\ UNCHANGED toolbarVars

\* #[derive(Clone)]
CloneComponent(i) ==
    /\ Len(components) < MaxComponents
    /\ components' = Append(components, components[i])
    /\ sources' = Append(sources, [src |-> sources[i].src, by |-> "clone"])
    /\ compared' = << >>
    /\ exported' = << >>
    /\ UNCHANGED <<next_id, toolbarVars>>

\* Data::same(&components[i], &components[j])
Same(i, j) ==
    /\ compared' = << components[i], components[j],
                      ComponentSame(components[i], components[j]) >>
    /\ exported' = << >>
    /\ UNCHANGED <<components, next_id, sources, toolbarVars>>

\* components[i].to_norad()
ToNorad(i) ==
    /\ exported' = << i, to_norad(components[i]) >>
    /\ compared' = << >>
    /\ UNCHANGED <<components, next_id, sources, toolbarVars>>

NextComponent ==
    \/ \E src \in NoradComponents : FromNorad(src)
    \/ \E i \in 1..Len(components) : CloneComponent(i)
    \/ \E i, j \in 1..Len(components) : Same(i, j)
    \/ \E i \in 1..Len(components) : ToNorad(i)

SpecComponent == InitComponent /\ [][NextComponent]_vars


\* ------------------------------------------------------ toolbar properties
Slots == 0..(Len(items) - 1)

\* The indices of the items named t, and of those bound to the chord of key.
NameIndices(t) == {i \in Slots : items[i + 1].name = t}
ChordIndices(key) == {i \in Slots : items[i + 1].hotkey = key}

Least(S) == CHOOSE i \in S : \A j \in S : i <= j

DistinctNames == \A i, j \in Slots : items[i + 1].name = items[j + 1].name => i = j

\* C1: over a non-empty registry, in every state reachable by clicks, key
\* events, SET_TOOL commands (known or unknown id) and preview commands,
\* 0 <= selected < items.len(): exactly one index of items is selected.
C1_SingleSelection ==
    /\ Len(items) > 0
    /\ selected \in Slots
    /\ Cardinality({i \in Slots : i = selected}) = 1

\* The last slot of a registry of several items has become the selected one.
C1_Witness ==
    /\ IsSetTool(event)
    /\ Len(items) > 1
    /\ selected = Len(items) - 1
    /\ prev # selected

\* C2: handling a SET_TOOL command, whatever the state and the id, submits
\* no command; one naming the selected tool changes nothing.
C2_NoReemission ==
    [][IsSetTool(event') =>
          /\ emitted' = << >>
          /\ Len(queue') <= Len(queue)
          /\ (items[selected + 1].name = event'.tool =>
                 /\ selected' = selected
                 /\ hide_panel' = hide_panel
                 /\ items' = items)]_vars

\* A command from outside named the tool that was selected, away from slot 0.
C2_Witness ==
    /\ IsSetTool(event)
    /\ event.origin = "external"
    /\ prev > 0
    /\ items[prev + 1].name = event.tool

\* C3 as stated: once a click on slot i has been handled, selected = i.
C3_ClickSetsSelected ==
    event.kind = "Click" => selected = event.slot

\* C3, amended: handling a click on slot i leaves selected as it was and,
\* when i is not the selected slot, submits SET_TOOL(items[i].name); selected
\* becomes the index of the first item of that name (i itself when the names
\* are pairwise distinct) when that command is dispatched to the toolbar.
C3_ClickSelectsOnDispatch ==
    /\ event.kind = "Click" =>
          /\ selected = prev
          /\ event.slot # prev =>
                /\ queue = << SetToolCommand(items[event.slot + 1].name, "toolbar") >>
                /\ DistinctNames => Least(NameIndices(queue[1].tool)) = event.slot
    /\ (IsSetTool(event) /\ event.origin = "toolbar") =>
          selected = Least(NameIndices(event.tool))

\* The command of a click has been dispatched and has moved the selection.
C3_Witness ==
    /\ IsSetTool(event)
    /\ event.origin = "toolbar"
    /\ selected # prev
    /\ selected > 0

\* C4: a click on a slot i other than the selected one submits exactly one
\* command, SET_TOOL(items[i].name).
C4_ClickEmitsClickedTool ==
    (event.kind = "Click" /\ event.slot # prev) =>
        /\ Len(emitted) = 1
        /\ emitted[1] = SetToolCommand(items[event.slot + 1].name, "toolbar")

\* A click on a slot other than the selected one, whose tool has another name.
C4_Witness ==
    /\ event.kind = "Click"
    /\ event.slot # prev
    /\ prev > 0
    /\ items[event.slot + 1].name # items[prev + 1].name

\* C5: after a SET_TOOL(t) command with t the name of some item, selected is
\* the index of the first item named t, whatever it was before.
C5_KnownIdSelectsFirst ==
    (IsSetTool(event) /\ NameIndices(event.tool) # {}) =>
        selected = Least(NameIndices(event.tool))

\* A command named a tool that two items carry and moved the selection.
C5_Witness ==
    /\ IsSetTool(event)
    /\ event.origin = "external"
    /\ Cardinality(NameIndices(event.tool)) > 1
    /\ selected # prev

\* C6: a SET_TOOL(t) command with t the name of no item changes neither
\* selected nor items (nor the panel) and submits nothing.
C6_UnknownIdIgnored ==
    [][(IsSetTool(event') /\ NameIndices(event'.tool) = {}) =>
          /\ selected' = selected
          /\ items' = items
          /\ hide_panel' = hide_panel
          /\ emitted' = << >>
          /\ Len(queue') <= Len(queue)]_vars

\* An unknown id arrived while a slot other than 0 was selected.
C6_Witness ==
    /\ IsSetTool(event)
    /\ event.tool = "Bogus"
    /\ selected > 0
    /\ selected = prev

\* C7: for every key event, tool_for_keypress gives the name of the
\* lowest-index item whose hotkey matches it, and no tool when none matches;
\* a key event that matches nothing changes no state.
C7_HotkeyLookup ==
    [][/\ \A key \in KeyEvents :
             tool_for_keypress(items, key) =
                 IF ChordIndices(key) = {} THEN NoTool
                 ELSE items[Least(ChordIndices(key)) + 1].name
       /\ (event'.kind = "KeyDown" /\ ChordIndices(event'.key) = {}) =>
             /\ selected' = selected
             /\ items' = items
             /\ hide_panel' = hide_panel
             /\ queue' = queue
             /\ emitted' = << >>]_vars

\* A key event matched two items of different names.
C7_Witness ==
    /\ event.kind = "KeyDown"
    /\ \E i, j \in ChordIndices(event.key) :
          i < j /\ items[i + 1].name # items[j + 1].name
    /\ emitted # << >>

C12_PanelVisibility ==
    [][/\ event.kind = "Init" => hide_panel = FALSE
       /\ IsTogglePreview(event') => hide_panel' = event'.flag
       /\ ~IsTogglePreview(event') => hide_panel' = hide_panel]_vars

\* A hidden panel has been shown again by a command with payload false.
C12_Witness ==
    /\ IsTogglePreview(event)
    /\ prev_hide
    /\ ~event.flag
    /\ ~hide_panel

\* C13: a TOGGLE_PREVIEW_TOOL command leaves selected and items as they were
\* and submits nothing; a click, a key event and a SET_TOOL command leave
\* hide_panel as it was.
C13_Independence ==
    [][/\ IsTogglePreview(event') =>
             /\ selected' = selected
             /\ items' = items
             /\ emitted' = << >>
             /\ queue' = queue
       /\ event'.kind \in {"Click", "KeyDown"} => hide_panel' = hide_panel
       /\ IsSetTool(event') => hide_panel' = hide_panel]_vars

\* A command from outside has moved the selection under a hidden panel, which
\* stays hidden.
C13_Witness ==
    /\ IsSetTool(event)
    /\ event.origin = "external"
    /\ selected # prev
    /\ prev_hide
    /\ hide_panel

\* C14: the default toolbar's registry is Select(v), Pen(p), Knife(e),
\* Preview(h), Measure(m), Rectangle(u), Ellipse(shift+u) in this order, its
\* names are pairwise distinct, and before any event selected is 0, Select.
C14_DefaultToolbar ==
    /\ [i \in 1..Len(items) |-> items[i].name] =
          << "Select", "Pen", "Knife", "Preview", "Measure", "Rectangle",
             "Ellipse" >>
    /\ [i \in 1..Len(items) |-> items[i].hotkey] =
          << [mods |-> "None", key |-> "v"], [mods |-> "None", key |-> "p"],
             [mods |-> "None", key |-> "e"], [mods |-> "None", key |-> "h"],
             [mods |-> "None", key |-> "m"], [mods |-> "None", key |-> "u"],
             [mods |-> "Shift", key |-> "u"] >>
    /\ DistinctNames
    /\ event.kind = "Init" =>
          /\ selected = 0
          /\ items[selected + 1].name = "Select"

\* The default toolbar as constructed, before any event.
C14_Witness ==
    /\ event.kind = "Init"
    /\ queue = << >>
    /\ Len(items) = Len(DefaultItems)
    /\ items[selected + 1].name = "Select"

\* C17: over pairwise distinct tool ids (as in every registry the program
\* builds), a click on a slot i other than the selected one puts one command
\* in flight; its dispatch to the toolbar leaves selected = i, submits
\* nothing and empties the queue.  Every dispatch of a queued command
\* shortens the queue, which never holds more than one command, so no chain
\* of dispatches goes on.
C17_EchoTerminates ==
    [][/\ Len(queue') <= 1
       /\ (event'.kind = "Click" /\ event'.slot # selected) => Len(queue') = 1
       /\ (IsSetTool(event') /\ event'.origin # "external") =>
             /\ Len(queue') < Len(queue)
             /\ emitted' = << >>
       /\ (/\ DistinctNames
           /\ event.kind = "Click"
           /\ event.slot # prev
           /\ IsSetTool(event')
           /\ event'.origin = "toolbar") =>
             /\ selected' = event.slot
             /\ queue' = << >>]_vars

\* The command of a click has come back: the clicked slot is selected and
\* nothing is in flight.
C17_Witness ==
    /\ DistinctNames
    /\ IsSetTool(event)
    /\ event.origin = "toolbar"
    /\ selected # prev
    /\ emitted = << >>
    /\ queue = << >>

\* C18: a click on the selected slot submits nothing and leaves selected as
\* it was.
C18_ReselectSilent ==
    (event.kind = "Click" /\ event.slot = prev) =>
        /\ emitted = << >>
        /\ queue = << >>
        /\ selected = prev

\* The selected slot, not the first one, has been clicked.
C18_Witness ==
    /\ event.kind = "Click"
    /\ event.slot = prev
    /\ prev > 0

\* C19: the panel hands every event to the toolbar whether hidden or not:
\* what a click or a command does to selected, and what it submits, is
\* decided by items, selected and the event alone, so two runs that differ
\* in hide_panel only agree on both.
C19_HiddenDoesNotGate ==
    [][event'.kind \in {"Click", "Command"} =>
          /\ selected' = SelectedAfterCommand(items, selected, event')
          /\ emitted' = SubmittedFrom(items, selected', event', 0)]_vars

\* Under a hidden panel a click has submitted its command and the command's
\* dispatch has moved the selection.
C19_Witness ==
    /\ prev_hide
    /\ hide_panel
    /\ IsSetTool(event)
    /\ event.origin = "toolbar"
    /\ selected # prev

\* ---------------------------------------------------- Component properties
\* Pairwise == of the six coefficients.
CoefficientsEqual(l, r) == \A k \in 1..6 : F64Eq(l[k], r[k])

\* C10 as stated: two Components compare as the same if and only if their
\* base names are equal and their transforms have equal coefficients,
\* whatever their ids.
C10_SameIgnoresId ==
    compared # << >> =>
        (compared[3] <=>
            /\ compared[1].base.text = compared[2].base.text
            /\ CoefficientsEqual(compared[1].transform, compared[2].transform))

\* C10, amended: two Components compare as the same if and only if their
\* base is the same shared name, their transforms have pairwise ==
\* coefficients and their ids are equal; with equal base and transform and
\* different ids they compare as different.
C10_SameIncludesId ==
    compared # << >> =>
        /\ compared[3] <=>
              /\ compared[1].base.arc = compared[2].base.arc
              /\ CoefficientsEqual(compared[1].transform, compared[2].transform)
              /\ compared[1].id = compared[2].id
        /\ compared[3] => compared[1].base.text = compared[2].base.text
        /\ compared[1].id # compared[2].id => ~compared[3]

\* Two Components of the same base and transform and of different ids have
\* been compared.
C10_Witness ==
    /\ compared # << >>
    /\ compared[1].base = compared[2].base
    /\ compared[1].transform = compared[2].transform
    /\ "NaN" \notin {compared[1].transform[k] : k \in 1..6}
    /\ compared[1].id # compared[2].id

C15_ImportedIdsDistinct ==
    \A i, j \in 1..Len(components) :
        (i # j /\ sources[i].by = "from_norad" /\ sources[j].by = "from_norad")
            => components[i].id # components[j].id

\* The same record, with an identifier, has been imported twice.
C15_Witness ==
    /\ Len(components) >= 2
    /\ sources[1] = sources[2]
    /\ sources[1].by = "from_norad"
    /\ sources[1].src.identifier # NoIdentifier

\* C16: affine_eq is reflexive, symmetric and transitive over the coefficient
\* arrays of the Components.
C16_AffineEqEquivalence ==
    LET held == {components[i].transform : i \in 1..Len(components)}
    IN \A a, b, c \in held :
          /\ affine_eq(a, a)
          /\ affine_eq(a, b) => affine_eq(b, a)
          /\ (affine_eq(a, b) /\ affine_eq(b, c)) => affine_eq(a, c)

=============================================================================
